---- MODULE Spec2Model ----
(***************************************************************************)
(* The configuration resolution engine of hooks/superflag.py: key          *)
(* expansion, directive cleaning, merge_configs, include resolution,       *)
(* load_profile_tree and load_config.                                      *)
(*                                                                         *)
(* YAML values are tagged records.  A Python str is a sequence of          *)
(* one-character strings; a word that is never scanned character by        *)
(* character ("directives", "aliases", a payload field name) is written as *)
(* a one-element sequence holding the whole word.  A Python dict is an     *)
(* association list in insertion order, as dict iteration order is         *)
(* observable in merge_configs and normalize_directives.                   *)
(***************************************************************************)
EXTENDS Integers, Sequences, FiniteSets, TLC

VARIABLES
    hashOrder,  \* iteration order of the set built by expand_flag_keys
    tree,       \* the running configuration that successive merges build
    base,       \* merge_configs: first argument of the last call
    overlay,    \* merge_configs: second argument of the last call
    result,     \* merge_configs: value returned by the last call
    shared,     \* keys of result['directives'] whose value is an object of overlay
    given,      \* base and overlay as they were when the last call was made
    merges,     \* number of merge_configs calls made so far
    op,         \* the operation that produced the current state
    fs,         \* the filesystem: path -> [dir, doc]
    profiles,   \* resolve_profiles(): the active profile names
    pending,    \* load_config: the profiles its loop has not reached yet
    visited,    \* load_config: the visited set shared by all load_profile_tree calls
    stack,      \* the load_profile_tree calls in progress, innermost last
    config,     \* load_config: the running merged configuration
    pc,         \* load_config: "load" while running, "done" once it returned
    returned,   \* load_config: the value returned (None, or the configuration)
    ret,        \* the last load_profile_tree call that returned
    parsed,     \* how many times each file was opened and parsed
    fn,         \* the function last called on its own, "none" before any call
    args,       \* the arguments of that call
    answer      \* what that call returned

mergeVars == <<tree, base, overlay, result, shared, given, merges, op>>
loadVars == <<fs, profiles, pending, visited, stack, config, pc, returned, ret, parsed>>
callVars == <<fn, args, answer>>
vars == <<hashOrder, mergeVars, loadVars, callVars>>

----------------------------------------------------------------------------
(* YAML / Python values *)

Null == [t |-> "null"]
Num(n) == [t |-> "num", n |-> n]
Str(s) == [t |-> "str", s |-> s]
List(xs) == [t |-> "list", elems |-> xs]
Dict(kvs) == [t |-> "dict", items |-> kvs]
Item(key, value) == [k |-> key, v |-> value]
EmptyDict == Dict(<<>>)

IsDict(x) == x.t = "dict"
IsList(x) == x.t = "list"
IsStr(x) == x.t = "str"
IsNone(x) == x.t = "null"

DIRECTIVES == <<"directives">>
INCLUDES == <<"includes">>
ALIASES == <<"aliases">>
VARIATIONS == <<"variations">>

RECURSIVE SelectItems(_, _)
SelectItems(kvs, key) ==
    IF kvs = <<>> THEN <<>>
    ELSE IF Head(kvs).k = key THEN <<Head(kvs)>>
    ELSE SelectItems(Tail(kvs), key)

KeysOf(d) == [i \in 1..Len(d.items) |-> d.items[i].k]
KeySet(d) == {d.items[i].k : i \in 1..Len(d.items)}
Has(d, key) == key \in KeySet(d)
\* dict.get(key): the value, or None
Get(d, key) == IF Has(d, key) THEN SelectItems(d.items, key)[1].v ELSE Null
\* d[key] = value: in place when the key exists, appended otherwise
DictSet(d, key, value) ==
    IF Has(d, key)
    THEN Dict([i \in 1..Len(d.items) |->
                 IF d.items[i].k = key THEN Item(key, value) ELSE d.items[i]])
    ELSE Dict(Append(d.items, Item(key, value)))
\* d.pop(key, None)
DictPop(d, key) == Dict(SelectSeq(d.items, LAMBDA it : it.k # key))

----------------------------------------------------------------------------
(* Strings and regular expressions *)

\* the characters excluded by [^,|\s]
IsSeparator(c) == c \in {",", "|", " "}
IsSpace(c) == c = " "

\* str.strip()
RECURSIVE LStrip(_)
LStrip(s) == IF s # <<>> /\ IsSpace(Head(s)) THEN LStrip(Tail(s)) ELSE s
RECURSIVE RStrip(_)
RStrip(s) ==
    IF s # <<>> /\ IsSpace(s[Len(s)]) THEN RStrip(SubSeq(s, 1, Len(s) - 1)) ELSE s
Strip(s) == RStrip(LStrip(s))

\* first index at or after i whose character is excluded by [^,|\s], or Len(s)+1
RECURSIVE TokenEnd(_, _)
TokenEnd(s, i) ==
    IF i <= Len(s) /\ ~IsSeparator(s[i]) THEN TokenEnd(s, i + 1) ELSE i

\* re.findall(r'--[^,|\s]+', s), scanning from index i: leftmost, greedy,
\* non-overlapping matches
RECURSIVE FindFlags(_, _)
FindFlags(s, i) ==
    IF i + 2 > Len(s) THEN <<>>
    ELSE IF s[i] = "-" /\ s[i + 1] = "-" /\ ~IsSeparator(s[i + 2])
         THEN LET e == TokenEnd(s, i + 2)
              IN  <<SubSeq(s, i, e - 1)>> \o FindFlags(s, e)
         ELSE FindFlags(s, i + 1)

\* re.split(r'[,|]', s)
RECURSIVE SplitKey(_, _)
SplitKey(s, i) ==
    IF i > Len(s) THEN <<s>>
    ELSE IF s[i] \in {",", "|"}
         THEN <<SubSeq(s, 1, i - 1)>> \o SplitKey(SubSeq(s, i + 1, Len(s)), 1)
         ELSE SplitKey(s, i + 1)

\* keys.add(x) for every x of xs, in order, on a set kept in insertion order
RECURSIVE AddAll(_, _)
AddAll(keys, xs) ==
    IF xs = <<>> THEN keys
    ELSE LET x == Strip(Head(xs))
         IN  AddAll(IF x = <<>> \/ x \in {keys[i] : i \in 1..Len(keys)}
                    THEN keys ELSE Append(keys, x),
                    Tail(xs))

Reverse(s) == [i \in 1..Len(s) |-> s[Len(s) + 1 - i]]

\* list(keys): a Python set of strings iterates in an order that depends on
\* the process's hash seed; the orders modelled are insertion order and its
\* reverse, fixed for the lifetime of the process.
ListOfSet(keys) == IF hashOrder = "fwd" THEN keys ELSE Reverse(keys)

\* the strings among the elements of a list value
StrElems(xs) ==
    LET strs == SelectSeq(xs, LAMBDA x : IsStr(x))
    IN  [i \in 1..Len(strs) |-> strs[i].s]

\* the alias strings one field of a directive contributes
AliasField(directive, field) ==
    LET aliases == Get(directive, field)
    IN  IF IsList(aliases) THEN StrElems(aliases.elems) ELSE <<>>

\* the keys of the raw key with the fallback of lines 232-236 always taken
KeysFromBoth(raw_key) ==
    AddAll(AddAll(<<>>, FindFlags(raw_key, 1)), SplitKey(raw_key, 1))

KeysFromRaw(raw_key) ==
    LET matched == AddAll(<<>>, FindFlags(raw_key, 1))
    IN  IF matched # <<>> THEN matched ELSE AddAll(<<>>, SplitKey(raw_key, 1))

expand_flag_keys(raw_key, directive) ==
    LET keys == KeysFromRaw(raw_key)
    IN  ListOfSet(IF IsDict(directive)
                  THEN AddAll(AddAll(keys, AliasField(directive, ALIASES)),
                              AliasField(directive, VARIATIONS))
                  ELSE keys)

\* a cleaner that forgets the 'variations' field
CleanAliasesOnly(directive) ==
    Dict(SelectSeq(directive.items, LAMBDA it : it.k # ALIASES))

clean_directive_config(directive) ==
    Dict(SelectSeq(directive.items, LAMBDA it : it.k \notin {ALIASES, VARIATIONS}))

----------------------------------------------------------------------------
(* merge_configs *)

RECURSIVE PopAll(_, _)
PopAll(directives, keys) ==
    IF keys = <<>> THEN directives
    ELSE PopAll(DictPop(directives, Head(keys)), Tail(keys))

\* directives[actual_key].update(value) where both are mappings: the fields
\* only the stored body has are carried over
RECURSIVE SetAllUpdating(_, _, _)
SetAllUpdating(directives, keys, value) ==
    IF keys = <<>> THEN directives
    ELSE LET had == Get(directives, Head(keys))
             kept == IF IsDict(had) /\ IsDict(value)
                     THEN SelectSeq(had.items, LAMBDA it : ~Has(value, it.k))
                     ELSE <<>>
             stored == IF IsDict(value) THEN Dict(kept \o value.items) ELSE value
         IN  SetAllUpdating(DictSet(directives, Head(keys), stored), Tail(keys), value)

RECURSIVE SetAll(_, _, _)
SetAll(directives, keys, value) ==
    IF keys = <<>> THEN directives
    ELSE SetAll(DictSet(directives, Head(keys), value), Tail(keys), value)

\* the loop body without line 142's directives.pop(flag, None)
MergeDirectiveKeepsRawKey(directives, flag, directive) ==
    LET keys == expand_flag_keys(flag, directive)
    IN  IF IsNone(directive) THEN PopAll(directives, keys)
        ELSE IF IsDict(directive)
             THEN SetAll(directives, keys, clean_directive_config(directive))
             ELSE SetAll(directives, keys, directive)

\* the loop body without the test of lines 141-145: a null directive is
\* stored as any other value that is not a mapping
MergeDirectiveStoresNull(directives, flag, directive) ==
    LET keys == expand_flag_keys(flag, directive)
    IN  IF IsDict(directive)
        THEN SetAll(directives, keys, clean_directive_config(directive))
        ELSE SetAll(directives, keys, directive)

\* one iteration of the loop over directives_overlay.items()
MergeDirective(directives, flag, directive) ==
    LET keys == expand_flag_keys(flag, directive)
    IN  IF IsNone(directive) THEN PopAll(DictPop(directives, flag), keys)
        ELSE IF IsDict(directive)
             THEN SetAll(directives, keys, clean_directive_config(directive))
             ELSE SetAll(directives, keys, directive)

RECURSIVE MergeDirectives(_, _)
MergeDirectives(directives, kvs) ==
    IF kvs = <<>> THEN directives
    ELSE MergeDirectives(MergeDirective(directives, Head(kvs).k, Head(kvs).v),
                         Tail(kvs))

\* what a method call on a value of the wrong type raises
AttributeError == [t |-> "AttributeError"]

RECURSIVE merge_configs(_, _)
RECURSIVE MergeGeneric(_, _)

\* the generic loop storing a null value instead of deleting the key
MergeGenericKeepsNull(res, kvs) ==
    IF kvs = <<>> THEN res
    ELSE LET key == Head(kvs).k
             value == Head(kvs).v
         IN  IF key = DIRECTIVES THEN MergeGeneric(res, Tail(kvs))
             ELSE IF IsDict(value)
                  THEN LET existing == IF IsDict(Get(res, key))
                                       THEN Get(res, key) ELSE EmptyDict
                       IN  MergeGeneric(DictSet(res, key, merge_configs(existing, value)),
                                        Tail(kvs))
                  ELSE MergeGeneric(DictSet(res, key, value), Tail(kvs))

\* the generic loop assigning a mapping value as it assigns a scalar, without
\* the recursive merge of lines 163-164
MergeGenericReplaces(res, kvs) ==
    IF kvs = <<>> THEN res
    ELSE LET key == Head(kvs).k
             value == Head(kvs).v
         IN  IF key = DIRECTIVES THEN MergeGeneric(res, Tail(kvs))
             ELSE IF IsNone(value) THEN MergeGeneric(DictPop(res, key), Tail(kvs))
             ELSE MergeGeneric(DictSet(res, key, value), Tail(kvs))

\* the generic loop without the test of lines 157-158
MergeGenericTakesDirectives(res, kvs) ==
    IF kvs = <<>> THEN res
    ELSE LET key == Head(kvs).k
             value == Head(kvs).v
         IN  IF IsNone(value) THEN MergeGeneric(DictPop(res, key), Tail(kvs))
             ELSE IF IsDict(value)
                  THEN LET existing == IF IsDict(Get(res, key))
                                       THEN Get(res, key) ELSE EmptyDict
                       IN  MergeGeneric(DictSet(res, key, merge_configs(existing, value)),
                                        Tail(kvs))
                  ELSE MergeGeneric(DictSet(res, key, value), Tail(kvs))

\* the loop over overlay.items() for the keys other than 'directives'
MergeGeneric(res, kvs) ==
    IF kvs = <<>> THEN res
    ELSE LET key == Head(kvs).k
             value == Head(kvs).v
         IN  IF key = DIRECTIVES THEN MergeGeneric(res, Tail(kvs))
             ELSE IF IsNone(value) THEN MergeGeneric(DictPop(res, key), Tail(kvs))
             ELSE IF IsDict(value)
                  THEN LET existing == IF IsDict(Get(res, key))
                                       THEN Get(res, key) ELSE EmptyDict
                       IN  MergeGeneric(DictSet(res, key, merge_configs(existing, value)),
                                        Tail(kvs))
                  ELSE MergeGeneric(DictSet(res, key, value), Tail(kvs))

merge_configs(b, o) ==
    LET directives_overlay == IF IsDict(o) THEN Get(o, DIRECTIVES) ELSE Null
        \* result.setdefault('directives', {})
        withDefault == IF Has(b, DIRECTIVES) THEN b ELSE DictSet(b, DIRECTIVES, EmptyDict)
        directives == Get(withDefault, DIRECTIVES)
    IN  IF IsDict(directives_overlay) /\ directives_overlay.items # <<>>
           /\ ~IsDict(directives)
        THEN AttributeError
        ELSE LET res == IF IsDict(directives_overlay)
                        THEN DictSet(withDefault, DIRECTIVES,
                                     MergeDirectives(directives, directives_overlay.items))
                        ELSE b
             IN  IF IsDict(o) THEN MergeGeneric(res, o.items) ELSE res

\* Object identity in the loop over directives_overlay.items(): the keys of
\* directives that hold the very object overlay['directives'][flag] holds.
\* Line 150 stores a fresh deep copy; line 153 stores `directive` itself, which
\* is observable when it is mutable (a list).  links is a set of <<key, flag>>.
ShareDirective(links, flag, directive) ==
    LET keys == expand_flag_keys(flag, directive)
        touched == {keys[i] : i \in 1..Len(keys)}
        kept == {l \in links : l[1] \notin touched}
    IN  IF IsNone(directive) THEN {l \in kept : l[1] # flag}
        ELSE IF IsDict(directive) THEN kept
        ELSE IF IsList(directive) THEN kept \cup {<<key, flag>> : key \in touched}
        ELSE kept

RECURSIVE ShareDirectives(_, _)
ShareDirectives(links, kvs) ==
    IF kvs = <<>> THEN links
    ELSE ShareDirectives(ShareDirective(links, Head(kvs).k, Head(kvs).v), Tail(kvs))

\* the <<key, flag>> links between merge_configs(b, o)['directives'] and
\* o['directives']; result = copy.deepcopy(base) shares nothing with b
SharedObjects(b, o) ==
    IF IsDict(o) /\ IsDict(Get(o, DIRECTIVES))
    THEN ShareDirectives({}, Get(o, DIRECTIVES).items)
    ELSE {}

----------------------------------------------------------------------------
(* Paths and the filesystem *)

\* A file name is the sequence of its dot-separated segments ("a.yaml" is
\* <<"a", "yaml">>); a path is the sequence of its names from the root.
PROFILES_DIR == << <<"superflag">> >>
YamlSuffixes == {"yaml", "yml"}
Last(p) == p[Len(p)]
Parent(p) == SubSeq(p, 1, Len(p) - 1)
\* Path.suffix of the last name, without its dot
Suffix(p) == IF p # <<>> /\ Len(Last(p)) > 1 THEN Last(p)[Len(Last(p))] ELSE ""
\* Path(str(p) + '.' + ext)
WithSuffix(p, ext) == Parent(p) \o <<Append(Last(p), ext)>>
DotDot == <<"..">>

\* Path.resolve(): ".." steps to the parent
RECURSIVE Resolve(_, _)
Resolve(done, rest) ==
    IF rest = <<>> THEN done
    ELSE IF Head(rest) = DotDot
         THEN Resolve(IF done = <<>> THEN done ELSE Parent(done), Tail(rest))
         ELSE Resolve(Append(done, Head(rest)), Tail(rest))

\* a str value that spells a path: its names, and whether it is absolute
PathStr(names) == [t |-> "str", path |-> names, abs |-> FALSE]
AbsPathStr(names) == [t |-> "str", path |-> names, abs |-> TRUE]
SpellsPath(x) == "path" \in DOMAIN x

Exists(p) == p \in DOMAIN fs
IsDirectory(p) == Exists(p) /\ fs[p].dir
IsFile(p) == Exists(p) /\ ~fs[p].dir
is_yaml_file(p) == IsFile(p) /\ Suffix(p) \in YamlSuffixes

\* The names of the model in the order sorted() puts them.
NameOrder ==
    << <<"a", "yaml">>, <<"b", "yaml">>, <<"base", "yaml">>, <<"c", "txt">>,
       <<"common">>, <<"common", "yaml">>, <<"common", "yml">>, <<"d">>,
       <<"missing">>, <<"missing", "yaml">>, <<"missing", "yml">>,
       <<"override", "yaml">>, <<"superflag">> >>
NameRank(n) == CHOOSE i \in 1..Len(NameOrder) : NameOrder[i] = n

\* p < q for paths: by names, a proper prefix first
RECURSIVE PathLess(_, _)
PathLess(p, q) ==
    IF q = <<>> THEN FALSE
    ELSE IF p = <<>> THEN TRUE
    ELSE IF Head(p) = Head(q) THEN PathLess(Tail(p), Tail(q))
    ELSE NameRank(Head(p)) < NameRank(Head(q))

RECURSIVE Sorted(_)
Sorted(ps) ==
    IF ps = {} THEN <<>>
    ELSE LET least == CHOOSE p \in ps : \A q \in ps \ {p} : PathLess(p, q)
         IN  <<least>> \o Sorted(ps \ {least})

IsUnder(p, directory) ==
    Len(p) > Len(directory) /\ SubSeq(p, 1, Len(directory)) = directory

\* the per-directory sorted walk followed by files.sort(): every YAML file
\* below the directory, in sorted path order
collect_yaml_files(directory) ==
    Sorted({p \in DOMAIN fs : IsUnder(p, directory) /\ is_yaml_file(p)})

Targets(paths) == [err |-> "none", targets |-> paths]
FileNotFoundError == [err |-> "FileNotFoundError", targets |-> <<>>]

\* a probing loop that goes on after a hit and returns every hit
RECURSIVE ProbeAll(_, _)
ProbeAll(candidate, exts) ==
    IF exts = <<>> THEN FileNotFoundError
    ELSE LET extended == WithSuffix(candidate, Head(exts))
             here == IF IsDirectory(extended) THEN collect_yaml_files(extended)
                     ELSE IF is_yaml_file(extended) THEN <<extended>>
                     ELSE <<>>
             rest == ProbeAll(candidate, Tail(exts))
         IN  IF here = <<>> THEN rest ELSE Targets(here \o rest.targets)

\* the loop over ('.yaml', '.yml') of lines 120-126
RECURSIVE Probe(_, _)
Probe(candidate, exts) ==
    IF exts = <<>> THEN FileNotFoundError
    ELSE LET extended == WithSuffix(candidate, Head(exts))
         IN  IF IsDirectory(extended) THEN Targets(collect_yaml_files(extended))
             ELSE IF is_yaml_file(extended) THEN Targets(<<extended>>)
             ELSE Probe(candidate, Tail(exts))

\* a resolver that answers "no files" where lines 119-128 raise
ResolveLenient(reference, base_path) ==
    LET candidate == IF reference.abs THEN reference.path
                     ELSE Resolve(Parent(base_path), reference.path)
    IN  IF IsDirectory(candidate) THEN Targets(collect_yaml_files(candidate))
        ELSE IF is_yaml_file(candidate) THEN Targets(<<candidate>>)
        ELSE Targets(<<>>)

\* reference is a non-blank str spelling a path (blank ones never get here:
\* load_profile_tree skips them)
resolve_include_targets(reference, base_path) ==
    LET candidate == IF reference.abs THEN reference.path
                     ELSE Resolve(Parent(base_path), reference.path)
    IN  IF IsDirectory(candidate) THEN Targets(collect_yaml_files(candidate))
        ELSE IF is_yaml_file(candidate) THEN Targets(<<candidate>>)
        ELSE IF Suffix(candidate) \notin YamlSuffixes
             THEN Probe(candidate, <<"yaml", "yml">>)
             ELSE FileNotFoundError

\* profile is a name without extension; a name ending in .yaml or .yml is kept
resolve_profile_path(profile) ==
    LET name == IF Len(profile) > 1 /\ profile[Len(profile)] \in YamlSuffixes
                THEN profile ELSE Append(profile, "yaml")
    IN  Append(PROFILES_DIR, name)

----------------------------------------------------------------------------
(* The documents the operations are applied to *)

FlagX == <<"-", "-", "x">>
FlagY == <<"-", "-", "y">>
FlagZ == <<"-", "-", "z">>
FlagV == <<"-", "-", "v">>
KeyXY == FlagX \o <<",", " ">> \o FlagY       \* "--x, --y"
KeyAB == <<"a", " ", "b", "|", "c">>          \* "a b|c": no flag token in it
FOO == <<"foo">>
BAR == <<"bar">>
HOOK == <<"hook_messages">>

\* {aliases: ["--z"], foo: 1}
BodyAliases == Dict(<<Item(ALIASES, List(<<Str(FlagZ)>>)), Item(FOO, Num(1))>>)
\* {bar: 2, aliases: ["--x, --y", " ", 7], variations: [" --v"]}
BodyVariations ==
    Dict(<<Item(BAR, Num(2)),
           Item(ALIASES, List(<<Str(KeyXY), Str(<<" ">>), Num(7)>>)),
           Item(VARIATIONS, List(<<Str(<<" ">> \o FlagV)>>))>>)
\* {foo: 3}
BodyPlain == Dict(<<Item(FOO, Num(3))>>)

RawKeys == {FlagX, FlagZ, KeyXY, KeyAB}
DirectiveValues ==
    {Null, Num(1), List(<<Num(1)>>), BodyAliases, BodyVariations, BodyPlain}

DirectivesDoc(kvs) == Dict(<<Item(DIRECTIVES, Dict(kvs))>>)
NullDoc(r) == DirectivesDoc(<<Item(r, Null)>>)

SingleDirectiveDocs ==
    {DirectivesDoc(<<Item(r, d)>>) : r \in RawKeys, d \in DirectiveValues}

\* two directives whose expansions overlap: document order decides
PairDirectiveDocs ==
    {DirectivesDoc(<<Item(KeyXY, BodyAliases), Item(FlagZ, Num(1))>>),
     DirectivesDoc(<<Item(FlagX, Null), Item(KeyXY, List(<<Num(2)>>))>>),
     DirectivesDoc(<<Item(KeyXY, BodyPlain), Item(FlagX, Null)>>)}

GenericDocs ==
    {EmptyDict,
     Dict(<<Item(HOOK, Null)>>),
     Dict(<<Item(HOOK, Num(5))>>),
     Dict(<<Item(HOOK, List(<<Null, Num(1)>>))>>),
     Dict(<<Item(HOOK, Dict(<<Item(FOO, Num(1)), Item(BAR, Null)>>))>>),
     Dict(<<Item(HOOK, Dict(<<Item(BAR, Dict(<<Item(FOO, Num(2))>>))>>))>>),
     Dict(<<Item(HOOK, Dict(<<Item(BAR, Dict(<<Item(FOO, Null), Item(BAR, Num(4))>>))>>))>>),
     Dict(<<Item(DIRECTIVES, Null)>>),
     Dict(<<Item(DIRECTIVES, Num(5))>>),
     Dict(<<Item(DIRECTIVES, List(<<Num(1)>>))>>),
     Dict(<<Item(HOOK, Dict(<<Item(DIRECTIVES, Dict(<<Item(KeyXY, Num(1))>>))>>))>>),
     Dict(<<Item(DIRECTIVES, Dict(<<Item(FlagX, BodyPlain)>>)),
            Item(HOOK, Dict(<<Item(FOO, Num(6))>>))>>)}

Documents == SingleDirectiveDocs \cup PairDirectiveDocs \cup GenericDocs

----------------------------------------------------------------------------
(* merge_configs applied to a running configuration *)

MaxMerges == 2

\* no load_config call in progress
NoReturn == [path |-> <<>>, data |-> EmptyDict, tree |-> EmptyDict, revisit |-> FALSE]
LoadIdle ==
    /\ fs = <<>>
    /\ profiles = <<>>
    /\ pending = <<>>
    /\ visited = {}
    /\ stack = <<>>
    /\ config = EmptyDict
    /\ pc = "idle"
    /\ returned = Null
    /\ ret = NoReturn
    /\ parsed = <<>>

\* no function called on its own
CallIdle ==
    /\ fn = "none"
    /\ args = <<>>
    /\ answer = Null

HashOrders == {"fwd", "rev"}

MergeInit ==
    /\ hashOrder \in HashOrders
    /\ tree = EmptyDict
    /\ base = EmptyDict
    /\ overlay = EmptyDict
    /\ result = EmptyDict
    /\ shared = {}
    /\ given = [base |-> EmptyDict, overlay |-> EmptyDict]
    /\ merges = 0
    /\ op = "init"
    /\ LoadIdle
    /\ CallIdle

\* tree = merge_configs(tree, o), as load_profile_tree and load_config do
Merge(o) ==
    /\ merges < MaxMerges
    /\ base' = tree
    /\ overlay' = o
    /\ result' = merge_configs(tree, o)
    /\ shared' = SharedObjects(tree, o)
    /\ given' = [base |-> tree, overlay |-> o]
    /\ tree' = result'
    /\ merges' = merges + 1
    /\ op' = "merge"
    /\ UNCHANGED <<hashOrder, callVars, loadVars>>

\* merge_configs(a, {}) on a document as parsed
MergeEmpty(a) ==
    /\ merges < MaxMerges
    /\ base' = a
    /\ overlay' = EmptyDict
    /\ result' = merge_configs(a, EmptyDict)
    /\ shared' = SharedObjects(a, EmptyDict)
    /\ given' = [base |-> a, overlay |-> EmptyDict]
    /\ merges' = merges + 1
    /\ op' = "merge_empty"
    /\ UNCHANGED <<hashOrder, callVars, tree, loadVars>>

\* value with x appended, when it is a list
Appended(value, x) == IF IsList(value) THEN List(Append(value.elems, x)) ELSE value

\* d with the values under the keys of ks replaced by f(value)
AppendUnder(d, ks, x) ==
    Dict([i \in 1..Len(d.items) |->
            IF d.items[i].k \in ks
            THEN Item(d.items[i].k, Appended(d.items[i].v, x))
            ELSE d.items[i]])

\* A caller's result['directives'][key].append(0) after the merge: the list
\* object is changed in place, so every holder of that object sees the change.
Mutate(key) ==
    /\ op = "merge"
    /\ IsDict(Get(result, DIRECTIVES))
    /\ IsList(Get(Get(result, DIRECTIVES), key))
    /\ LET flags == {l[2] : l \in {m \in shared : m[1] = key}}
           holders == {key} \cup {l[1] : l \in {m \in shared : m[2] \in flags}}
       IN  /\ result' = DictSet(result, DIRECTIVES,
                                AppendUnder(Get(result, DIRECTIVES), holders, Num(0)))
           /\ overlay' = IF flags = {} THEN overlay
                         ELSE DictSet(overlay, DIRECTIVES,
                                      AppendUnder(Get(overlay, DIRECTIVES), flags, Num(0)))
    /\ tree' = result'
    /\ op' = "mutate"
    /\ UNCHANGED <<hashOrder, callVars, base, shared, given, merges, loadVars>>

MergeNext ==
    \/ \E o \in Documents : Merge(o)
    \/ \E a \in Documents : MergeEmpty(a)
    \/ \E key \in {FlagX, FlagY, FlagZ} : Mutate(key)

MergeSpec == MergeInit /\ [][MergeNext]_vars

----------------------------------------------------------------------------
(* load_profile_tree, normalize_directives and load_config as functions *)

YAMLError == [t |-> "YAMLError"]

\* yaml.safe_load(f) or {}
Parse(path) == IF IsNone(fs[path].doc) THEN EmptyDict ELSE fs[path].doc
\* data.pop('includes', []) or []
IncludesOf(data) == IF IsList(Get(data, INCLUDES)) THEN Get(data, INCLUDES).elems ELSE <<>>
\* line 185: not isinstance(include_ref, str) or not include_ref.strip()
IsSkipped(include_ref) ==
    \/ ~IsStr(include_ref)
    \/ ~SpellsPath(include_ref) /\ Strip(include_ref.s) = <<>>

\* line 193 with the roles of its arguments exchanged
FoldOwnBodyUnder(combined, data) == merge_configs(data, combined)

\* line 193: the file's own body goes on top of what its includes gave
FoldOwnBody(combined, data) == merge_configs(combined, data)

Loaded(t, vis) == [err |-> "none", tree |-> t, visited |-> vis]
Raised(e, vis) == [err |-> e, tree |-> EmptyDict, visited |-> vis]

RECURSIVE load_profile_tree(_, _)
RECURSIVE LoadTargets(_, _, _)
RECURSIVE LoadIncludes(_, _, _, _)

\* the loop over targets of lines 188-191
LoadTargets(targets, combined, vis) ==
    IF targets = <<>> THEN Loaded(combined, vis)
    ELSE IF ~Exists(Head(targets)) THEN Raised("FileNotFoundError", vis)
    ELSE LET sub == load_profile_tree(Head(targets), vis)
         IN  IF sub.err # "none" THEN sub
             ELSE LoadTargets(Tail(targets), merge_configs(combined, sub.tree),
                              sub.visited)

\* the loop over includes of lines 184-191
LoadIncludes(includes, resolved, combined, vis) ==
    IF includes = <<>> THEN Loaded(combined, vis)
    ELSE IF IsSkipped(Head(includes))
         THEN LoadIncludes(Tail(includes), resolved, combined, vis)
    ELSE LET found == resolve_include_targets(Head(includes), resolved)
         IN  IF found.err # "none" THEN Raised(found.err, vis)
             ELSE LET sub == LoadTargets(found.targets, combined, vis)
                  IN  IF sub.err # "none" THEN sub
                      ELSE LoadIncludes(Tail(includes), resolved, sub.tree, sub.visited)

load_profile_tree(resolved, vis) ==
    IF resolved \in vis THEN Loaded(EmptyDict, vis)
    ELSE IF fs[resolved].doc = YAMLError THEN Raised("YAMLError", vis \cup {resolved})
    ELSE LET data == Parse(resolved)
             sub == LoadIncludes(IncludesOf(data), resolved, EmptyDict,
                                 vis \cup {resolved})
         IN  IF sub.err # "none" THEN sub
             ELSE Loaded(FoldOwnBody(sub.tree, DictPop(data, INCLUDES)), sub.visited)

\* one iteration of the loop over directives.items() in normalize_directives
NormalizeDirective(normalized, raw_key, directive) ==
    LET keys == expand_flag_keys(raw_key, directive)
    IN  IF IsDict(directive)
        THEN SetAll(normalized, keys, clean_directive_config(directive))
        ELSE SetAll(normalized, keys, directive)

RECURSIVE NormalizeAll(_, _)
NormalizeAll(normalized, kvs) ==
    IF kvs = <<>> THEN normalized
    ELSE NormalizeAll(NormalizeDirective(normalized, Head(kvs).k, Head(kvs).v),
                      Tail(kvs))

\* the configuration as normalize_directives leaves it
normalize_directives(c) ==
    IF IsDict(Get(c, DIRECTIVES))
    THEN DictSet(c, DIRECTIVES, NormalizeAll(EmptyDict, Get(c, DIRECTIVES).items))
    ELSE c

RECURSIVE LoadProfiles(_, _, _)
LoadProfiles(names, cfg, vis) ==
    IF names = <<>> THEN normalize_directives(cfg)
    ELSE LET profile_path == resolve_profile_path(Head(names))
         IN  IF ~Exists(profile_path) THEN Null
             ELSE LET sub == load_profile_tree(profile_path, vis)
                  IN  IF sub.err # "none" THEN Null
                      ELSE LoadProfiles(Tail(names), merge_configs(cfg, sub.tree),
                                        sub.visited)

\* the value load_config returns for the active profiles
load_config == LoadProfiles(profiles, EmptyDict, {})

----------------------------------------------------------------------------
(* The files load_config is run on *)

BasePath == Append(PROFILES_DIR, <<"base", "yaml">>)
OverridePath == Append(PROFILES_DIR, <<"override", "yaml">>)
CommonPath == Append(PROFILES_DIR, <<"common", "yaml">>)
DirPath == Append(PROFILES_DIR, <<"d">>)
APath == Append(DirPath, <<"a", "yaml">>)
BPath == Append(DirPath, <<"b", "yaml">>)
TextPath == Append(DirPath, <<"c", "txt">>)

\* document bodies; n tells the files apart
MapBody(n) == DirectivesDoc(<<Item(FlagX, Dict(<<Item(FOO, Num(n))>>))>>)
ScalarBody(n) == DirectivesDoc(<<Item(FlagX, Num(n))>>)
CompoundBody(n) ==
    DirectivesDoc(<<Item(KeyXY, Dict(<<Item(ALIASES, List(<<Str(FlagZ)>>)),
                                       Item(FOO, Num(n))>>))>>)
FallbackBody(n) == DirectivesDoc(<<Item(KeyAB, Dict(<<Item(FOO, Num(n))>>))>>)
AliasKeyBody(n) ==
    DirectivesDoc(<<Item(FlagZ, Dict(<<Item(ALIASES, List(<<Str(KeyXY)>>)),
                                       Item(BAR, Num(n))>>))>>)
HookBody(n) == Dict(<<Item(HOOK, Dict(<<Item(FOO, Num(n))>>))>>)
HookNull == Dict(<<Item(HOOK, Null)>>)

\* no 'includes' key in the document
NoIncludes == <<>>
\* the document with an 'includes' list in front of the body
Document(includes, body) ==
    IF includes = NoIncludes THEN body
    ELSE Dict(<<Item(INCLUDES, List(includes))>> \o body.items)

File(doc) == [dir |-> FALSE, doc |-> doc]
Directory == [dir |-> TRUE, doc |-> Null]
\* the files of a set of <<path, entry>> pairs; an entry of Null is no file
Filesystem(entries) ==
    LET present == {e \in entries : e[2] # Null}
    IN  [p \in {e[1] : e \in present} |->
            (CHOOSE e \in present : e[1] = p)[2]]

Blank == Str(<<" ">>)

\* two profiles and a file both may include
BaseChoices ==
    {File(Document(i, b)) :
        i \in {NoIncludes,
               <<PathStr(<< <<"common", "yaml">> >>)>>,
               <<PathStr(<< <<"common">> >>), PathStr(<< <<"missing">> >>)>>,
               <<PathStr(<< <<"common", "yaml">> >>), PathStr(<< <<"override", "yaml">> >>)>>,
               <<Blank, Num(0), PathStr(<< <<"override", "yaml">> >>)>>},
        b \in {EmptyDict, MapBody(1), NullDoc(FlagX), FallbackBody(1), AliasKeyBody(1)}}
OverrideChoices ==
    {Null} \cup
    {File(Document(i, b)) :
        i \in {NoIncludes,
               <<PathStr(<< <<"common", "yaml">> >>)>>,
               <<PathStr(<< <<"base", "yaml">> >>)>>},
        b \in {EmptyDict, MapBody(2), CompoundBody(2), NullDoc(FlagX), HookNull}}
CommonChoices ==
    {Null, File(YAMLError)} \cup
    {File(Document(i, b)) :
        i \in {NoIncludes,
               <<PathStr(<< <<"base", "yaml">> >>)>>,
               <<PathStr(<< <<"common", "yaml">> >>)>>},
        b \in {MapBody(3), AliasKeyBody(3), HookBody(3)}}

\* one profile that includes a directory of two files
DirBaseChoices ==
    {File(Document(i, b)) :
        i \in {<<PathStr(<< <<"d">> >>)>>,
               <<PathStr(<< <<"d">>, <<"b", "yaml">> >>), PathStr(<< <<"d">> >>)>>,
               <<AbsPathStr(DirPath), PathStr(<< <<"d">>, <<"missing", "yml">> >>)>>},
        b \in {EmptyDict, ScalarBody(1)}}
AChoices ==
    {Null} \cup
    {File(Document(i, b)) :
        i \in {NoIncludes,
               <<PathStr(<< <<"b", "yaml">> >>)>>,
               <<PathStr(<< <<"a", "yaml">> >>)>>,
               <<PathStr(<< DotDot, <<"base", "yaml">> >>)>>},
        b \in {MapBody(4), NullDoc(FlagX), HookBody(4)}}
BChoices ==
    {Null, File(YAMLError)} \cup
    {File(Document(i, b)) :
        i \in {NoIncludes, <<PathStr(<< <<"a", "yaml">> >>)>>},
        b \in {MapBody(5), CompoundBody(5), HookNull}}

ProfileFilesystems ==
    {Filesystem({<<BasePath, f1>>, <<OverridePath, f2>>, <<CommonPath, f3>>}) :
        f1 \in BaseChoices, f2 \in OverrideChoices, f3 \in CommonChoices}
DirectoryFilesystems ==
    {Filesystem({<<BasePath, f1>>, <<DirPath, Directory>>, <<APath, f4>>,
                 <<BPath, f5>>, <<TextPath, f6>>}) :
        f1 \in DirBaseChoices, f4 \in AChoices, f5 \in BChoices,
        f6 \in {Null, File(YAMLError)}}

----------------------------------------------------------------------------
(* load_config, step by step *)

Frame(path, data) ==
    [path |-> path, data |-> DictPop(data, INCLUDES), includes |-> IncludesOf(data),
     targets |-> <<>>, combined |-> EmptyDict]
Top == stack[Len(stack)]

MergeIdle ==
    /\ tree = EmptyDict
    /\ base = EmptyDict
    /\ overlay = EmptyDict
    /\ result = EmptyDict
    /\ shared = {}
    /\ given = [base |-> EmptyDict, overlay |-> EmptyDict]
    /\ merges = 0
    /\ op = "idle"

\* load_config is entered: line 206, on one of the filesystems and profile lists
LoadFrom(filesystems, lists) ==
    /\ hashOrder \in HashOrders
    /\ MergeIdle
    /\ CallIdle
    /\ fs \in filesystems
    /\ profiles \in lists
    /\ pending = profiles
    /\ visited = {}
    /\ stack = <<>>
    /\ config = EmptyDict
    /\ pc = "load"
    /\ returned = Null
    /\ ret = NoReturn
    /\ parsed = [p \in DOMAIN fs |-> 0]

LoadInit ==
    \/ LoadFrom(ProfileFilesystems, {<< <<"base">> >>, << <<"base">>, <<"override">> >>})
    \/ LoadFrom(DirectoryFilesystems, {<< <<"base">> >>})

\* except (FileNotFoundError, yaml.YAMLError): return None
Abort ==
    /\ pc' = "done"
    /\ returned' = Null
    /\ stack' = <<>>
    /\ UNCHANGED <<config, pending, ret>>

\* line 213 taking the first profile's tree as it is instead of merging it
\* onto the empty config
DeliverFirstAsIs(t, callers) ==
    /\ IF callers = <<>>
       THEN /\ config' = IF config = EmptyDict THEN t ELSE merge_configs(config, t)
            /\ pending' = Tail(pending)
            /\ stack' = <<>>
       ELSE /\ stack' = [callers EXCEPT ![Len(callers)].combined = merge_configs(@, t)]
            /\ UNCHANGED <<config, pending>>
    /\ UNCHANGED <<pc, returned>>

\* a load_profile_tree call returned t to the frame on top of callers, or to
\* load_config's loop when there is none: lines 191 and 213
Deliver(t, callers) ==
    /\ IF callers = <<>>
       THEN /\ config' = merge_configs(config, t)
            /\ pending' = Tail(pending)
            /\ stack' = <<>>
       ELSE /\ stack' = [callers EXCEPT ![Len(callers)].combined = merge_configs(@, t)]
            /\ UNCHANGED <<config, pending>>
    /\ UNCHANGED <<pc, returned>>

\* the interpreter's recursion limit, counted in load_profile_tree calls
RecursionLimit == 8
RecursionError == [t |-> "RecursionError"]

\* load_profile_tree entered without the test of lines 174-175
CallUnguarded(path, callers) ==
    IF Len(callers) >= RecursionLimit
    THEN /\ pc' = "done" /\ returned' = RecursionError /\ stack' = <<>>
         /\ UNCHANGED <<config, pending, ret, visited, parsed>>
    ELSE /\ visited' = visited \cup {path}
         /\ parsed' = [parsed EXCEPT ![path] = @ + 1]
         /\ IF fs[path].doc = YAMLError
            THEN Abort
            ELSE /\ stack' = Append(callers, Frame(path, Parse(path)))
                 /\ UNCHANGED <<config, pending, pc, returned, ret>>

\* load_profile_tree(path, visited) is entered, lines 173-182
Call(path, callers) ==
    IF Len(callers) >= RecursionLimit
    THEN /\ pc' = "done" /\ returned' = RecursionError /\ stack' = <<>>
         /\ UNCHANGED <<config, pending, ret, visited, parsed>>
    ELSE IF path \in visited
    THEN /\ Deliver(EmptyDict, callers)
         /\ ret' = [path |-> path, data |-> EmptyDict, tree |-> EmptyDict,
                    revisit |-> TRUE]
         /\ UNCHANGED <<visited, parsed>>
    ELSE /\ visited' = visited \cup {path}
         /\ parsed' = [parsed EXCEPT ![path] = @ + 1]
         /\ IF fs[path].doc = YAMLError
            THEN Abort
            ELSE /\ stack' = Append(callers, Frame(path, Parse(path)))
                 /\ UNCHANGED <<config, pending, pc, returned, ret>>

\* lines 209-213: the next profile of load_config's loop
StartProfile ==
    /\ pc = "load" /\ stack = <<>> /\ pending # <<>>
    /\ LET profile_path == resolve_profile_path(Head(pending))
       IN  IF ~Exists(profile_path)
           THEN Abort /\ UNCHANGED <<visited, parsed>>
           ELSE Call(profile_path, <<>>)
    /\ UNCHANGED <<hashOrder, callVars, mergeVars, fs, profiles>>

\* lines 184-187: the next include reference of the file on top
ResolveInclude ==
    /\ pc = "load" /\ stack # <<>>
    /\ Top.targets = <<>> /\ Top.includes # <<>>
    /\ LET include_ref == Head(Top.includes)
           rest == [stack EXCEPT ![Len(stack)].includes = Tail(@)]
       IN  IF IsSkipped(include_ref)
           THEN stack' = rest /\ UNCHANGED <<config, pending, pc, returned, ret>>
           ELSE LET found == resolve_include_targets(include_ref, Top.path)
                IN  IF found.err # "none"
                    THEN Abort
                    ELSE /\ stack' = [rest EXCEPT ![Len(stack)].targets = found.targets]
                         /\ UNCHANGED <<config, pending, pc, returned, ret>>
    /\ UNCHANGED <<hashOrder, callVars, mergeVars, fs, profiles, visited, parsed>>

\* lines 188-191: the next resolved target of the current include
LoadTarget ==
    /\ pc = "load" /\ stack # <<>>
    /\ Top.targets # <<>>
    /\ LET include_path == Head(Top.targets)
           callers == [stack EXCEPT ![Len(stack)].targets = Tail(@)]
       IN  IF ~Exists(include_path)
           THEN Abort /\ UNCHANGED <<visited, parsed>>
           ELSE Call(include_path, callers)
    /\ UNCHANGED <<hashOrder, callVars, mergeVars, fs, profiles>>

\* lines 193-194: the file on top has no include left
Return ==
    /\ pc = "load" /\ stack # <<>>
    /\ Top.targets = <<>> /\ Top.includes = <<>>
    /\ LET combined == FoldOwnBody(Top.combined, Top.data)
       IN  /\ Deliver(combined, SubSeq(stack, 1, Len(stack) - 1))
           /\ ret' = [path |-> Top.path, data |-> Top.data, tree |-> combined,
                      revisit |-> FALSE]
    /\ UNCHANGED <<hashOrder, callVars, mergeVars, fs, profiles, visited, parsed>>

\* lines 217-218: every profile is merged
Finish ==
    /\ pc = "load" /\ stack = <<>> /\ pending = <<>>
    /\ returned' = normalize_directives(config)
    /\ pc' = "done"
    /\ UNCHANGED <<hashOrder, callVars, mergeVars, fs, profiles, pending, visited, stack,
                   config, ret, parsed>>

LoadNext == StartProfile \/ ResolveInclude \/ LoadTarget \/ Return \/ Finish

Spec == LoadInit /\ [][LoadNext]_vars

\* load_config runs to completion, nothing else being scheduled: weak fairness
\* of LoadNext.  A step of LoadNext is possible exactly while pc = "load" (one of
\* the five guards holds then, and each step changes the stack, pending or pc),
\* so the fairness condition is written with pc = "load" for the enabling
\* condition: always eventually not enabled, or always eventually a step.
Fairness == []<>(pc # "load") \/ []<><<LoadNext>>_vars
FairSpec == LoadInit /\ [][LoadNext]_vars /\ Fairness

----------------------------------------------------------------------------
(* Properties of merge_configs *)

\* Python's == on values: dicts compare without regard to insertion order
RECURSIVE ValueEq(_, _)
ValueEq(a, b) ==
    IF IsDict(a) /\ IsDict(b)
    THEN /\ KeySet(a) = KeySet(b)
         /\ \A key \in KeySet(a) : ValueEq(Get(a, key), Get(b, key))
    ELSE IF IsList(a) /\ IsList(b)
    THEN /\ Len(a.elems) = Len(b.elems)
         /\ \A i \in 1..Len(a.elems) : ValueEq(a.elems[i], b.elems[i])
    ELSE a = b

\* the 'directives' map of a configuration, empty when it has none
DirectivesOf(c) == IF IsDict(Get(c, DIRECTIVES)) THEN Get(c, DIRECTIVES) ELSE EmptyDict
\* a configuration without its 'directives' key
Others(c) == DictPop(c, DIRECTIVES)
ExpandedSet(r, d) == LET ks == expand_flag_keys(r, d) IN {ks[i] : i \in 1..Len(ks)}

\* C6: merge_configs(base, {directives: {r: null}}) has neither r nor any key
\* expand_flag_keys derives from r under 'directives'; every other entry of
\* base's directives map, and every other key of base, is unchanged.
C6_DirectiveDeletion ==
    \A r \in RawKeys :
        (op = "merge" /\ overlay = NullDoc(r)) =>
            LET gone == {r} \cup ExpandedSet(r, Null)
                before == DirectivesOf(base)
                after == DirectivesOf(result)
            IN  /\ KeySet(after) = KeySet(before) \ gone
                /\ \A key \in KeySet(after) : ValueEq(Get(after, key), Get(before, key))
                /\ ValueEq(Others(result), Others(base))

\* a deletion through the compound key "--x, --y" on a base that holds "--x",
\* the raw string "--x, --y" as a key (from an alias) and an unrelated "--v"
C6_Witness ==
    /\ op = "merge" /\ overlay = NullDoc(KeyXY)
    /\ {KeyXY, FlagX, FlagV} \subseteq KeySet(DirectivesOf(base))
    /\ KeySet(DirectivesOf(result)) = {FlagV}

\* the parts of a compound key, and what a flag token is, stated without the
\* regular expression
Parts(r) ==
    LET ps == SplitKey(r, 1) IN {Strip(ps[i]) : i \in 1..Len(ps)} \ {<<>>}
IsFlagToken(p) ==
    /\ Len(p) >= 3 /\ p[1] = "-" /\ p[2] = "-"
    /\ \A i \in 1..Len(p) : ~IsSeparator(p[i])
HasDashes(r) == \E i \in 1..(Len(r) - 1) : r[i] = "-" /\ r[i + 1] = "-"
ListStrings(v) ==
    IF IsList(v)
    THEN {Strip(v.elems[i].s) : i \in {j \in 1..Len(v.elems) : IsStr(v.elems[j])}}
    ELSE {}
AliasStrings(d) ==
    (ListStrings(Get(d, ALIASES)) \cup ListStrings(Get(d, VARIATIONS))) \ {<<>>}
\* body is d without its top-level 'aliases' and 'variations' fields
IsStrippedBody(body, d) ==
    /\ IsDict(body)
    /\ KeySet(body) = KeySet(d) \ {ALIASES, VARIATIONS}
    /\ \A f \in KeySet(body) : ValueEq(Get(body, f), Get(d, f))

\* C7: for an overlay holding one directive whose body is a mapping,
\* merge_configs stores the body without its top-level 'aliases' and
\* 'variations' fields under every flag token of the raw key (under every part
\* of the key when it holds no "--" at all) and under every non-empty trimmed
\* alias and variation string; no body stored under 'directives' has a
\* top-level 'aliases' or 'variations' field.
C7_AliasFanOut ==
    \A r \in RawKeys, d \in DirectiveValues :
        (op = "merge" /\ IsDict(d) /\ overlay = DirectivesDoc(<<Item(r, d)>>)) =>
            LET after == DirectivesOf(result)
                stored == {p \in Parts(r) : IsFlagToken(p) \/ ~HasDashes(r)}
                            \cup AliasStrings(d)
            IN  /\ \A key \in stored :
                       Has(after, key) /\ IsStrippedBody(Get(after, key), d)
                /\ \A key \in KeySet(after) :
                       IsDict(Get(after, key)) =>
                           KeySet(Get(after, key)) \cap {ALIASES, VARIATIONS} = {}

\* "--x, --y" with aliases and a variation, fanned out over four keys
C7_Witness ==
    /\ op = "merge"
    /\ overlay = DirectivesDoc(<<Item(KeyXY, BodyVariations)>>)
    /\ {FlagX, FlagY, FlagV} \subseteq KeySet(DirectivesOf(result))
    /\ Get(DirectivesOf(result), FlagV) = Dict(<<Item(BAR, Num(2))>>)
    /\ Get(DirectivesOf(result), FlagX) = Get(DirectivesOf(result), FlagY)

\* a value without the keys that hold null, at every mapping depth
RECURSIVE DropNulls(_)
DropNulls(v) ==
    IF IsDict(v)
    THEN LET kept == SelectSeq(v.items, LAMBDA it : ~IsNone(it.v))
         IN  Dict([i \in 1..Len(kept) |-> Item(kept[i].k, DropNulls(kept[i].v))])
    ELSE v

\* some mapping below the top level has a key named 'directives'
RECURSIVE HasDirectivesKey(_)
HasDirectivesKey(v) ==
    /\ IsDict(v)
    /\ \/ Has(v, DIRECTIVES)
       \/ \E i \in 1..Len(v.items) : HasDirectivesKey(v.items[i].v)
NestedDirectives(c) == \E i \in 1..Len(c.items) : HasDirectivesKey(c.items[i].v)

\* C9 as claimed: merge_configs(A, {}) equals A, and merge_configs({}, A)
\* equals A on every field other than 'directives', null values included.
C9_MergeIdentity ==
    /\ op = "merge_empty" => ValueEq(result, base)
    /\ (op = "merge" /\ base = EmptyDict) => ValueEq(Others(result), Others(overlay))

\* C9 as amended: merge_configs(A, {}) equals A; merge_configs({}, A), on the
\* fields other than 'directives', equals A with the null-valued keys removed
\* at every mapping depth, when no nested mapping of A has a 'directives' key.
C9_MergeIdentityWithoutNulls ==
    /\ op = "merge_empty" => ValueEq(result, base)
    /\ (op = "merge" /\ base = EmptyDict /\ ~NestedDirectives(overlay)) =>
           ValueEq(Others(result), DropNulls(Others(overlay)))

\* merge_configs({}, {hook_messages: {bar: {foo: null, bar: 4}}}): the nested
\* null is gone from the result
C9_Witness ==
    /\ op = "merge" /\ base = EmptyDict
    /\ overlay = Dict(<<Item(HOOK, Dict(<<Item(BAR, Dict(<<Item(FOO, Null),
                                                           Item(BAR, Num(4))>>))>>))>>)
    /\ result = Dict(<<Item(HOOK, Dict(<<Item(BAR, Dict(<<Item(BAR, Num(4))>>))>>))>>)

\* C10: after merge_configs(A, B) returned, A and B are as they were given,
\* also after the caller changes a value inside the result.
C10_MergePurity ==
    /\ ValueEq(base, given.base)
    /\ ValueEq(overlay, given.overlay)

----------------------------------------------------------------------------
(* Properties of load_profile_tree and load_config *)

\* the step-by-step run returns what the functions compute
LoadAgrees == pc = "done" => returned = load_config

\* load_profile_tree(path, set()), the file resolved on its own
Standalone(path) == normalize_directives(load_profile_tree(path, {}).tree)

Max(S) == CHOOSE n \in S : \A m \in S : m <= n

\* the directives of a document body whose expansion holds key, by position
Saying(data, key) ==
    LET own == DirectivesOf(data).items
    IN  {i \in 1..Len(own) : key \in ExpandedSet(own[i].k, own[i].v)}
\* the keys the directives of a document body expand to
Said(data) ==
    LET own == DirectivesOf(data).items
    IN  UNION {ExpandedSet(own[i].k, own[i].v) : i \in 1..Len(own)}

\* C1: when a load_profile_tree call that loaded file F returns, then for
\* every key the directives of F's own body expand to, the returned tree has
\* what the last such directive of F says: no entry when it is null, the body
\* without 'aliases' and 'variations' when it is a mapping, the scalar itself
\* otherwise; whatever F's includes gave for that key.
C1_OwnBodyPrecedence ==
    (ret # NoReturn /\ ~ret.revisit) =>
        \A key \in Said(ret.data) :
            LET d == DirectivesOf(ret.data).items[Max(Saying(ret.data, key))].v
                got == DirectivesOf(ret.tree)
            IN  IF IsNone(d) THEN ~Has(got, key)
                ELSE IF IsDict(d) THEN Has(got, key) /\ IsStrippedBody(Get(got, key), d)
                ELSE Has(got, key) /\ Get(got, key) = d

\* base.yaml, whose body sets --x to null, returns a tree without --x although
\* the common.yaml it includes defines --x
C1_Witness ==
    /\ ret.path = BasePath /\ ~ret.revisit
    /\ ret.data = NullDoc(FlagX)
    /\ CommonPath \in visited
    /\ Has(DirectivesOf(Standalone(CommonPath)), FlagX)
    /\ ~Has(DirectivesOf(ret.tree), FlagX)

\* C2, in the case it names: with profiles [base, override] that both include
\* common.yaml and nothing else, for every flag token both profiles resolve
\* on their own, the final directives entry is the one override resolves.
C2_MultiProfileOverride ==
    (pc = "done" /\ returned # Null
        /\ profiles = << <<"base">>, <<"override">> >>
        /\ IncludesOf(fs[BasePath].doc) = <<PathStr(<< <<"common", "yaml">> >>)>>
        /\ IncludesOf(fs[OverridePath].doc) = <<PathStr(<< <<"common", "yaml">> >>)>>) =>
        LET over == DirectivesOf(Standalone(OverridePath))
            both == KeySet(DirectivesOf(Standalone(BasePath))) \cap KeySet(over)
            final == DirectivesOf(returned)
        IN  \A key \in {k \in both : IsFlagToken(k)} :
                Has(final, key) /\ ValueEq(Get(final, key), Get(over, key))

\* the path an include reference names, and whether anything answers to it,
\* stated without the resolver
Candidate(reference, base_path) ==
    IF reference.abs THEN reference.path
    ELSE Resolve(Parent(base_path), reference.path)
Answers(reference, base_path) ==
    LET c == Candidate(reference, base_path)
        tried == {c} \cup IF Suffix(c) \in YamlSuffixes THEN {}
                          ELSE {WithSuffix(c, "yaml"), WithSuffix(c, "yml")}
    IN  \E q \in tried : IsDirectory(q) \/ is_yaml_file(q)
Parses(p) == IsFile(p) /\ fs[p].doc # YAMLError
References(p) ==
    LET refs == IncludesOf(Parse(p))
    IN  {refs[i] : i \in {j \in 1..Len(refs) : ~IsSkipped(refs[j])}}
Included(p) ==
    UNION {LET found == resolve_include_targets(r, p).targets
           IN  {found[i] : i \in 1..Len(found)} : r \in References(p)}
RECURSIVE Closure(_)
Closure(ps) ==
    LET more == ps \cup UNION {Included(p) : p \in {q \in ps : Parses(q)}}
    IN  IF more = ps THEN ps ELSE Closure(more)
ProfilePaths == {resolve_profile_path(profiles[i]) : i \in 1..Len(profiles)}
\* every file the include graph reaches from the profiles
Reached == Closure({p \in ProfilePaths : Exists(p)})
Broken ==
    \/ \E p \in ProfilePaths : ~Exists(p)
    \/ \E p \in Reached : ~Parses(p)
    \/ \E p \in Reached : Parses(p) /\ \E r \in References(p) : ~Answers(r, p)

\* C4: when a profile has no file, or a reached file does not parse, or an
\* include reference of a reached file names nothing that exists, load_config
\* returns None.
C4_AllOrNothing == (pc = "done" /\ Broken) => returned = Null

\* base was merged into config, then override.yaml was found missing
C4_Witness ==
    /\ pc = "done" /\ returned = Null
    /\ profiles = << <<"base">>, <<"override">> >>
    /\ ~Exists(OverridePath)
    /\ Has(DirectivesOf(config), FlagX)
    /\ pending = << <<"override">> >>

\* C5: every key of the directives map load_config returns is a flag token:
\* "--" and then characters other than ',', '|' and whitespace.
C5_CanonicalFinalMap ==
    (pc = "done" /\ returned # Null) =>
        \A key \in KeySet(DirectivesOf(returned)) : IsFlagToken(key)

\* C8: base.yaml includes the directory d and nothing else; for every key that
\* both d/a.yaml and d/b.yaml resolve and base's own body does not set, the
\* final entry is the one d/b.yaml resolves.
C8_DirectoryIncludeOrder ==
    (pc = "done" /\ returned # Null /\ IsFile(APath) /\ IsFile(BPath)
        /\ IncludesOf(fs[BasePath].doc) = <<PathStr(<< <<"d">> >>)>>) =>
        LET later == DirectivesOf(Standalone(BPath))
            both == KeySet(DirectivesOf(Standalone(APath))) \cap KeySet(later)
            final == DirectivesOf(returned)
        IN  \A key \in both \ Said(fs[BasePath].doc) :
                Has(final, key) /\ ValueEq(Get(final, key), Get(later, key))

\* C3: load_config runs to its end whatever graph the includes form; the
\* visit of a file already in the visited set returns the empty configuration;
\* and when nothing is missing or malformed a configuration is returned.
C3_CycleSafety ==
    /\ <>(pc = "done")
    /\ [](ret.revisit => ret.tree = EmptyDict)
    /\ []((pc = "done" /\ ~Broken) => IsDict(returned))

\* override.yaml, included by base.yaml, includes base.yaml: the second visit
\* of base.yaml returned while both calls were still in progress
C3_Witness ==
    /\ ret.revisit /\ ret.path = BasePath
    /\ Len(stack) = 2
    /\ stack[1].path = BasePath /\ stack[2].path = OverridePath

----------------------------------------------------------------------------
(* Blank include references *)

\* include_ref is a str that is empty once stripped
IsBlank(include_ref) ==
    IsStr(include_ref) /\ ~SpellsPath(include_ref) /\ Strip(include_ref.s) = <<>>
\* the files that were opened and whose 'includes' list holds a blank string
BlankIncluders ==
    {p \in DOMAIN fs :
        /\ parsed[p] > 0 /\ Parses(p)
        /\ \E i \in 1..Len(IncludesOf(Parse(p))) : IsBlank(IncludesOf(Parse(p))[i])}

\* C11: when a file that load_config opened lists a blank include reference,
\* load_config returns None.
C11_EmptyIncludeAborts ==
    (pc = "done" /\ BlankIncluders # {}) => returned = Null

----------------------------------------------------------------------------
(* Deletions across profiles and across includes *)

\* the keys for which the last directive of a document body is null
Deleted(data) ==
    {key \in Said(data) :
        IsNone(DirectivesOf(data).items[Max(Saying(data, key))].v)}

\* C12: with profiles [base, override], every key that override.yaml's own
\* body sets to null and base resolves on its own has no entry in the final
\* directives map.
C12_DeletionAcrossProfiles ==
    (pc = "done" /\ returned # Null
        /\ profiles = << <<"base">>, <<"override">> >>) =>
        \A key \in Deleted(Parse(OverridePath))
                    \cap KeySet(DirectivesOf(Standalone(BasePath))) :
            ~Has(DirectivesOf(returned), key)

\* base.yaml lists exactly common.yaml and then override.yaml, which include
\* nothing themselves
TwoIncludes ==
    /\ IsFile(BasePath)
    /\ IncludesOf(Parse(BasePath)) =
            <<PathStr(<< <<"common", "yaml">> >>), PathStr(<< <<"override", "yaml">> >>)>>
    /\ Parses(CommonPath) /\ IncludesOf(Parse(CommonPath)) = <<>>
    /\ Parses(OverridePath) /\ IncludesOf(Parse(OverridePath)) = <<>>
\* the top-level keys other than 'directives' a document body sets to null
NulledKeys(data) ==
    {data.items[i].k : i \in {j \in 1..Len(data.items) :
        data.items[j].k \notin {DIRECTIVES, INCLUDES} /\ IsNone(data.items[j].v)}}

\* C13: base.yaml includes [common.yaml, override.yaml] and says nothing
\* about key k, and common.yaml resolves k.  When override.yaml's body sets k
\* to null (as a directive, or as a top-level key), the tree load_profile_tree
\* returns for base.yaml has no k; when override.yaml resolves k to a value,
\* that value is the one in the tree.
C13_LastAppliedIncludeWins ==
    (ret.path = BasePath /\ ~ret.revisit /\ TwoIncludes) =>
        LET first == load_profile_tree(CommonPath, {}).tree
            second == load_profile_tree(OverridePath, {}).tree
            own == Parse(OverridePath)
            got == ret.tree
        IN  /\ \A key \in (Deleted(own) \cap KeySet(DirectivesOf(first)))
                            \ Said(ret.data) :
                    ~Has(DirectivesOf(got), key)
            /\ \A key \in (NulledKeys(own) \cap KeySet(first)) \ KeySet(ret.data) :
                    ~Has(got, key)
            /\ \A key \in (KeySet(DirectivesOf(second)) \cap KeySet(DirectivesOf(first)))
                            \ Said(ret.data) :
                    /\ Has(DirectivesOf(got), key)
                    /\ Get(DirectivesOf(got), key) = Get(DirectivesOf(second), key)

\* the half of C13 about values: the value the later include resolves is the
\* one in the tree
C13_LaterValueWins ==
    (ret.path = BasePath /\ ~ret.revisit /\ TwoIncludes) =>
        LET first == load_profile_tree(CommonPath, {}).tree
            second == load_profile_tree(OverridePath, {}).tree
        IN  \A key \in (KeySet(DirectivesOf(second)) \cap KeySet(DirectivesOf(first)))
                        \ Said(ret.data) :
                /\ Has(DirectivesOf(ret.tree), key)
                /\ Get(DirectivesOf(ret.tree), key) = Get(DirectivesOf(second), key)

----------------------------------------------------------------------------
(* The directives merge, flag by flag *)

\* C14: in merge_configs(base, overlay), every flag token among the keys of
\* base's directives that no raw key of overlay's directives expands to keeps
\* its value; and every flag token whose last directive in overlay is a
\* mapping holds exactly that mapping without 'aliases' and 'variations',
\* with no field of base's body for it.
C14_PerFlagGranularity ==
    op = "merge" =>
        LET before == DirectivesOf(base)
            after == DirectivesOf(result)
            own == DirectivesOf(overlay).items
        IN  /\ \A key \in KeySet(before) \ Said(overlay) :
                    IsFlagToken(key) =>
                        Has(after, key) /\ ValueEq(Get(after, key), Get(before, key))
            /\ \A key \in Said(overlay) :
                    LET d == own[Max(Saying(overlay, key))].v
                    IN  (IsFlagToken(key) /\ IsDict(d)) =>
                            Has(after, key) /\ IsStrippedBody(Get(after, key), d)

\* base holds {foo: 1} under --x and --z; the overlay's body for --x is
\* {bar: 2}: --x holds {bar: 2} only, --z is as it was
C14_Witness ==
    /\ op = "merge"
    /\ overlay = DirectivesDoc(<<Item(FlagX, BodyVariations)>>)
    /\ Get(DirectivesOf(base), FlagX) = Dict(<<Item(FOO, Num(1))>>)
    /\ Get(DirectivesOf(base), FlagZ) = Dict(<<Item(FOO, Num(1))>>)
    /\ Get(DirectivesOf(result), FlagX) = Dict(<<Item(BAR, Num(2))>>)
    /\ Get(DirectivesOf(result), FlagZ) = Dict(<<Item(FOO, Num(1))>>)

----------------------------------------------------------------------------
(* The generic merge of the keys other than 'directives' *)

\* res is o merged into b, key by key, stated without the loop: under a key
\* of o that holds a mapping, res holds the same relation one level down
\* (b's value counting as empty when it is no mapping); under a key of o that
\* holds a scalar or a sequence, res holds that value; under a key only b
\* has, res holds b's value.  Keys o sets to null and o's 'directives' are
\* not constrained here.
RECURSIVE DeepMerged(_, _, _)
DeepMerged(res, b, o) ==
    /\ IsDict(res)
    /\ \A key \in KeySet(o) \ {DIRECTIVES} :
           LET value == Get(o, key)
           IN  IF IsNone(value) THEN TRUE
               ELSE IF IsDict(value)
               THEN /\ Has(res, key)
                    /\ DeepMerged(Get(res, key),
                                  IF IsDict(Get(b, key)) THEN Get(b, key) ELSE EmptyDict,
                                  value)
               ELSE Has(res, key) /\ Get(res, key) = value
    /\ \A key \in KeySet(b) \ KeySet(o) :
           Has(res, key) /\ ValueEq(Get(res, key), Get(b, key))

\* C15: merge_configs(base, overlay) is overlay merged into base key by key:
\* mappings recursively, scalars and sequences by replacement, and the keys
\* only base has unchanged, at every depth.
C15_GenericDeepMerge ==
    op = "merge" => DeepMerged(result, base, overlay)

\* {hook_messages: {bar: {bar: 4}}} merged with {hook_messages: {bar: {foo: 2}}}:
\* the key two levels down that only base has is kept
C15_Witness ==
    /\ op = "merge"
    /\ base = Dict(<<Item(HOOK, Dict(<<Item(BAR, Dict(<<Item(BAR, Num(4))>>))>>))>>)
    /\ overlay = Dict(<<Item(HOOK, Dict(<<Item(BAR, Dict(<<Item(FOO, Num(2))>>))>>))>>)
    /\ result = Dict(<<Item(HOOK, Dict(<<Item(BAR, Dict(<<Item(BAR, Num(4)),
                                                          Item(FOO, Num(2))>>))>>))>>)

\* no key that o sets to null is in res, at every depth o reaches by mappings
RECURSIVE NullsDeleted(_, _)
NullsDeleted(res, o) ==
    /\ IsDict(res)
    /\ \A key \in KeySet(o) \ {DIRECTIVES} :
           LET value == Get(o, key)
           IN  IF IsNone(value) THEN ~Has(res, key)
               ELSE IF IsDict(value)
               THEN Has(res, key) /\ NullsDeleted(Get(res, key), value)
               ELSE TRUE

\* C16: merge_configs(base, overlay) has no key, other than 'directives',
\* that overlay sets to null, at the top level and at every depth the
\* recursive merge reaches, whether or not base had the key; the merge
\* returns a mapping.
C16_GenericNullDelete ==
    op = "merge" => NullsDeleted(result, overlay)

\* {hook_messages: {bar: {foo: 2}}} merged with
\* {hook_messages: {bar: {foo: null, bar: 4}}}: foo is deleted two levels down
C16_Witness ==
    /\ op = "merge"
    /\ base = Dict(<<Item(HOOK, Dict(<<Item(BAR, Dict(<<Item(FOO, Num(2))>>))>>))>>)
    /\ overlay = Dict(<<Item(HOOK, Dict(<<Item(BAR, Dict(<<Item(FOO, Null),
                                                           Item(BAR, Num(4))>>))>>))>>)
    /\ result = Dict(<<Item(HOOK, Dict(<<Item(BAR, Dict(<<Item(BAR, Num(4))>>))>>))>>)

\* C17: when overlay's 'directives' is no mapping (null, a scalar, a sequence,
\* or absent), merge_configs(base, overlay) has base's 'directives' as it
\* was, and none when base had none.  When it is a mapping, every key of the
\* result's directives is a key of base's or a key the overlay's raw keys
\* expand to, and each expanded key holds what its last directive says (no
\* entry for null, the body without 'aliases' and 'variations' for a mapping,
\* the value itself otherwise): raw keys are not stored as they are written
\* and bodies are not merged.
C17_DirectivesNotGeneric ==
    op = "merge" =>
        IF ~IsDict(Get(overlay, DIRECTIVES))
        THEN /\ Has(result, DIRECTIVES) = Has(base, DIRECTIVES)
             /\ Get(result, DIRECTIVES) = Get(base, DIRECTIVES)
        ELSE LET before == DirectivesOf(base)
                 after == DirectivesOf(result)
                 own == DirectivesOf(overlay).items
             IN  /\ KeySet(after) \subseteq KeySet(before) \cup Said(overlay)
                 /\ \A key \in Said(overlay) :
                        LET d == own[Max(Saying(overlay, key))].v
                        IN  (IsFlagToken(key) \/ key \notin KeySet(DirectivesOf(overlay))) =>
                                IF IsNone(d) THEN ~Has(after, key)
                                ELSE IF IsDict(d)
                                THEN Has(after, key) /\ IsStrippedBody(Get(after, key), d)
                                ELSE Has(after, key) /\ Get(after, key) = d

\* {directives: [1]} merged into a configuration that has directives
C17_Witness ==
    /\ op = "merge"
    /\ overlay = Dict(<<Item(DIRECTIVES, List(<<Num(1)>>))>>)
    /\ Has(DirectivesOf(base), FlagX)
    /\ result = base

----------------------------------------------------------------------------
(* expand_flag_keys on its own *)

Dash == <<"-", "-">>
\* "x--y|--z", "--x--y", "--", "---", " --x ,a", "a,,b| ", "--x|--x", ""
KeyInner == <<"x">> \o FlagY \o <<"|">> \o FlagZ
KeyJoined == FlagX \o FlagY
KeyMixed == <<" ">> \o FlagX \o <<" ", ",", "a">>
KeyGaps == <<"a", ",", ",", "b", "|", " ">>
KeyTwice == FlagX \o <<"|">> \o FlagX
ExpandKeys ==
    RawKeys \cup {KeyInner, KeyJoined, Dash, Dash \o <<"-">>, KeyMixed, KeyGaps,
                  KeyTwice, <<>>}
\* {aliases: "--z"}: the field is a str, not a sequence
BodyAliasStr == Dict(<<Item(ALIASES, Str(FlagZ))>>)
ExpandDirectives == DirectiveValues \cup {BodyAliasStr}

ExpandInit ==
    /\ hashOrder \in HashOrders
    /\ MergeIdle
    /\ LoadIdle
    /\ CallIdle

\* expand_flag_keys(raw_key, directive) is called
Expand(raw_key, directive) ==
    /\ fn' = "expand_flag_keys"
    /\ args' = [raw_key |-> raw_key, directive |-> directive]
    /\ answer' = expand_flag_keys(raw_key, directive)
    /\ UNCHANGED <<hashOrder, mergeVars, loadVars>>

ExpandNext == \E r \in ExpandKeys, d \in ExpandDirectives : Expand(r, d)

ExpandSpec == ExpandInit /\ [][ExpandNext]_vars

\* the maximal runs of s that hold no character of seps
Pieces(s, seps) ==
    {SubSeq(s, i, j) : <<i, j>> \in
        {p \in (1..Len(s)) \X (1..Len(s)) :
            /\ p[1] <= p[2]
            /\ \A n \in p[1]..p[2] : s[n] \notin seps
            /\ p[1] = 1 \/ s[p[1] - 1] \in seps
            /\ p[2] = Len(s) \/ s[p[2] + 1] \in seps}}
Min(S) == CHOOSE n \in S : \A m \in S : n <= m
\* the match of '--[^,|\s]+' in a run w of characters other than ',', '|' and
\* whitespace: from the first "--" that a character follows, to the end of w
FlagIn(w) ==
    LET starts == {i \in 1..(Len(w) - 2) : w[i] = "-" /\ w[i + 1] = "-"}
    IN  IF starts = {} THEN {} ELSE {SubSeq(w, Min(starts), Len(w))}
Matches(r) == UNION {FlagIn(w) : w \in Pieces(r, {",", "|", " "})}
\* the trimmed non-empty parts of r between ',' and '|'
TrimmedParts(r) == {Strip(p) : p \in Pieces(r, {",", "|"})} \ {<<>>}

\* C18: expand_flag_keys(r, d) holds no key twice, and its keys are the
\* matches of '--' followed by characters other than ',', '|' and whitespace
\* in r when there is one, the trimmed non-empty parts of r between ',' and
\* '|' otherwise, and, when d is a mapping, the trimmed non-empty strings of
\* its 'aliases' and 'variations' sequences.
C18_KeyExpansion ==
    fn = "expand_flag_keys" =>
        LET r == args.raw_key
            d == args.directive
            got == {answer[i] : i \in 1..Len(answer)}
        IN  /\ Cardinality(got) = Len(answer)
            /\ got = (IF Matches(r) # {} THEN Matches(r) ELSE TrimmedParts(r))
                        \cup (IF IsDict(d) THEN AliasStrings(d) ELSE {})

\* " --x ,a" with {bar: 2, aliases: ["--x, --y", " ", 7], variations: [" --v"]}:
\* "a" is dropped, the alias "--x, --y" is kept as written
C18_Witness ==
    /\ fn = "expand_flag_keys"
    /\ args = [raw_key |-> KeyMixed, directive |-> BodyVariations]
    /\ {answer[i] : i \in 1..Len(answer)} = {FlagX, KeyXY, FlagV}

----------------------------------------------------------------------------
(* resolve_include_targets on its own *)

StemPath == Append(PROFILES_DIR, <<"common">>)
YmlPath == Append(PROFILES_DIR, <<"common", "yml">>)
\* a directory entry brings one YAML file below it
Below(directory, entry, name) ==
    <<Append(directory, name), IF entry = Directory THEN File(EmptyDict) ELSE Null>>
\* base.yaml, and next to it "common", "common.yaml" and "common.yml", each
\* absent, a file or a directory
ResolverFilesystems ==
    {Filesystem({<<BasePath, File(EmptyDict)>>,
                 <<StemPath, e1>>, Below(StemPath, e1, <<"a", "yaml">>),
                 <<CommonPath, e2>>, Below(CommonPath, e2, <<"b", "yaml">>),
                 <<YmlPath, e3>>, Below(YmlPath, e3, <<"a", "yaml">>)}) :
        e1 \in {Null, File(EmptyDict), Directory},
        e2 \in {Null, File(EmptyDict), Directory},
        e3 \in {Null, File(EmptyDict), Directory}}
ResolverReferences ==
    {PathStr(<< <<"common">> >>), PathStr(<< <<"common", "yaml">> >>),
     PathStr(<< <<"common", "yml">> >>), PathStr(<< <<"missing">> >>),
     AbsPathStr(StemPath)}

ResolveInit ==
    /\ hashOrder \in HashOrders
    /\ MergeIdle
    /\ CallIdle
    /\ fs \in ResolverFilesystems
    /\ profiles = <<>>
    /\ pending = <<>>
    /\ visited = {}
    /\ stack = <<>>
    /\ config = EmptyDict
    /\ pc = "idle"
    /\ returned = Null
    /\ ret = NoReturn
    /\ parsed = [p \in DOMAIN fs |-> 0]

\* resolve_include_targets(reference, base_path) is called for base.yaml
ResolveCall(reference) ==
    /\ fn' = "resolve_include_targets"
    /\ args' = [reference |-> reference, base_path |-> BasePath]
    /\ answer' = resolve_include_targets(reference, BasePath)
    /\ UNCHANGED <<hashOrder, mergeVars, loadVars>>

ResolveNext == \E reference \in ResolverReferences : ResolveCall(reference)

ResolveSpec == ResolveInit /\ [][ResolveNext]_vars

\* what using an existing path gives: the YAML files below a directory, the
\* file itself otherwise
Using(q) == IF IsDirectory(q) THEN Targets(collect_yaml_files(q)) ELSE Targets(<<q>>)

\* C19: a candidate that is a directory or a YAML file is used as it is.  A
\* candidate that does not exist and has no recognized extension is probed
\* with ".yaml" and then ".yml": the first of the two that exists is used,
\* alone; when neither exists, and when a candidate with a recognized
\* extension does not exist, FileNotFoundError is raised.
C19_StemProbing ==
    fn = "resolve_include_targets" =>
        LET c == Candidate(args.reference, args.base_path)
            yaml == WithSuffix(c, "yaml")
            yml == WithSuffix(c, "yml")
        IN  /\ (IsDirectory(c) \/ is_yaml_file(c)) => answer = Using(c)
            /\ (~Exists(c) /\ Suffix(c) \notin YamlSuffixes) =>
                    answer = IF Exists(yaml) THEN Using(yaml)
                             ELSE IF Exists(yml) THEN Using(yml)
                             ELSE FileNotFoundError
            /\ (~Exists(c) /\ Suffix(c) \in YamlSuffixes) => answer = FileNotFoundError

\* "common" does not exist, common.yaml and common.yml both do: only
\* common.yaml is returned
C19_Witness ==
    /\ fn = "resolve_include_targets"
    /\ args.reference = PathStr(<< <<"common">> >>)
    /\ ~Exists(StemPath) /\ IsFile(CommonPath) /\ IsFile(YmlPath)
    /\ answer = Targets(<<CommonPath>>)

----------------------------------------------------------------------------
(* Each file is visited once *)

\* the step enters load_profile_tree for a path that is in the visited set
Revisits ==
    \/ StartProfile /\ resolve_profile_path(Head(pending)) \in visited
    \/ LoadTarget /\ Head(Top.targets) \in visited
\* the step enters load_profile_tree for an existing path that is not
FirstVisits ==
    \/ /\ StartProfile
       /\ Exists(resolve_profile_path(Head(pending)))
       /\ resolve_profile_path(Head(pending)) \notin visited
    \/ LoadTarget /\ Exists(Head(Top.targets)) /\ Head(Top.targets) \notin visited
\* what has been merged so far: load_config's config and the combined map of
\* every call in progress
Combined == <<config, [i \in 1..Len(stack) |-> stack[i].combined]>>

\* C20: the visited set only grows; no file is parsed more than once; entering
\* a file that is not in the visited set adds it and parses it; entering a
\* file that is in the visited set parses nothing, returns the empty
\* configuration and leaves everything merged so far as it was.
C20_VisitOnce ==
    /\ [][visited \subseteq visited']_vars
    /\ [](\A p \in DOMAIN fs : parsed[p] <= 1)
    /\ [][FirstVisits =>
            \E p \in DOMAIN fs \ visited :
                /\ visited' = visited \cup {p}
                /\ parsed' = [parsed EXCEPT ![p] = 1]]_vars
    /\ [][Revisits =>
            /\ parsed' = parsed /\ visited' = visited
            /\ ret'.revisit /\ ret'.tree = EmptyDict
            /\ Combined' = Combined]_vars

\* a diamond: a file that was parsed once is entered again while none of the
\* calls in progress is a call for it
C20_Witness ==
    /\ pc = "load" /\ ret.revisit
    /\ parsed[ret.path] = 1
    /\ stack # <<>>
    /\ \A i \in 1..Len(stack) : stack[i].path # ret.path

----------------------------------------------------------------------------
(* Null directives in merged trees *)

\* the 'directives' value of c, when c has one, is a mapping without a null
NoNullDirective(c) ==
    Has(c, DIRECTIVES) =>
        /\ IsDict(Get(c, DIRECTIVES))
        /\ \A key \in KeySet(Get(c, DIRECTIVES)) : ~IsNone(Get(Get(c, DIRECTIVES), key))
\* process_input's valid_flags for the configuration load_config returned
valid_flags == KeySet(DirectivesOf(returned))
\* the files that were opened and whose own body holds a null directive
NullSayers ==
    {p \in DOMAIN fs :
        /\ parsed[p] > 0 /\ Parses(p)
        /\ \E key \in KeySet(DirectivesOf(Parse(p))) :
               IsNone(Get(DirectivesOf(Parse(p)), key))}

\* C21: every tree built by merge_configs calls from the empty tree (the
\* combined tree of each load_profile_tree call in progress, the tree the last
\* call returned, load_config's config) has, when it has a 'directives' value,
\* a mapping without a null entry there; so has the configuration load_config
\* returns, and no flag of valid_flags has a null directive.
C21_NoNullSurvives ==
    /\ NoNullDirective(config)
    /\ NoNullDirective(ret.tree)
    /\ \A i \in 1..Len(stack) : NoNullDirective(stack[i].combined)
    /\ (pc = "done" /\ IsDict(returned)) =>
            /\ NoNullDirective(returned)
            /\ \A flag \in valid_flags : ~IsNone(Get(DirectivesOf(returned), flag))

\* a file with a null directive was loaded and the returned configuration has
\* directives
C21_Witness ==
    /\ pc = "done" /\ IsDict(returned)
    /\ NullSayers # {}
    /\ valid_flags # {}

\* the same for the tree of a chain of merge_configs calls on its own
C21_MergeChain == NoNullDirective(tree)

----------------------------------------------------------------------------
(* normalize_directives on the merged configuration *)

HasListSeparator(key) == \E i \in 1..Len(key) : key[i] \in {",", "|"}

\* C22: the directives map load_config returns has the keys of the map config
\* held before normalize_directives was called, each with the same body, and
\* none of its keys contains ',' or '|'.
C22_NormalizationNoOp ==
    (pc = "done" /\ IsDict(returned)) =>
        LET before == DirectivesOf(config)
            after == DirectivesOf(returned)
        IN  /\ KeySet(after) = KeySet(before)
            /\ \A key \in KeySet(after) : Get(after, key) = Get(before, key)
            /\ \A key \in KeySet(after) : ~HasListSeparator(key)

\* base.yaml's own body gives "--z" the alias "--x, --y": the tree
\* load_profile_tree returned for it has the alias as a key, the configuration
\* returned has "--x" and "--y"
C22_Witness ==
    /\ pc = "done" /\ IsDict(returned)
    /\ ret.path = BasePath /\ ~ret.revisit
    /\ Has(DirectivesOf(ret.data), FlagZ)
    /\ Has(DirectivesOf(ret.tree), KeyXY)
    /\ {FlagX, FlagY, FlagZ} \subseteq KeySet(DirectivesOf(returned))

====
